---- MODULE Spec2Model ----
(***************************************************************************)
(* The crypto research dashboard: the Home view (src/app/page.tsx) with    *)
(* its token list, its fetch-and-validate submission and its dark-mode     *)
(* preference, and the proxy route (src/app/api/research/route.ts).        *)
(*                                                                         *)
(* Strings that the code converts (trim, toLowerCase, URL building and     *)
(* parsing) are sequences of characters; "%26" and "%20" stand for the     *)
(* percent-encoded "&" and " ".  An absent value (null) is None and a      *)
(* present one is Some(v).                                                 *)
(***************************************************************************)
EXTENDS Integers, Sequences, FiniteSets, TLC

\* Most input fields the user opens.
MaxTokens == 2
\* Most invocations of the proxy route in progress at once.
MaxHandlers == 2

VARIABLES tokens, results, loading, dark, storage, pc, pendingDark,
          reloadedFrom, toasts, submissions, handlers

vars == <<tokens, results, loading, dark, storage, pc, pendingDark,
          reloadedFrom, toasts, submissions, handlers>>

viewVars == <<tokens, results, loading, dark, storage, pc, pendingDark,
              reloadedFrom, toasts, submissions>>

None == <<>>
Some(v) == <<v>>

(***************************************************************************)
(* String operations                                                       *)
(***************************************************************************)
RECURSIVE DropLeading(_)
DropLeading(s) ==
    IF s # <<>> /\ Head(s) = " " THEN DropLeading(Tail(s)) ELSE s

RECURSIVE DropTrailing(_)
DropTrailing(s) ==
    IF s # <<>> /\ s[Len(s)] = " "
    THEN DropTrailing(SubSeq(s, 1, Len(s) - 1))
    ELSE s

\* String.prototype.trim
trim(s) == DropTrailing(DropLeading(s))

LowerChar(c) ==
    CASE c = "B" -> "b"
      [] c = "E" -> "e"
      [] OTHER -> c

\* String.prototype.toLowerCase
RECURSIVE toLowerCase(_)
toLowerCase(s) ==
    IF s = <<>> THEN <<>> ELSE <<LowerChar(Head(s))>> \o toLowerCase(Tail(s))

\* The part of s before the first occurrence of a character of stop.
RECURSIVE Before(_, _)
Before(s, stop) ==
    IF s = <<>> \/ Head(s) \in stop THEN <<>>
    ELSE <<Head(s)>> \o Before(Tail(s), stop)

EncodeChar(c) == IF c = " " THEN "%20" ELSE c

DecodeChar(c) ==
    CASE c = "%20" -> " "
      [] c = "%26" -> "&"
      [] OTHER -> c

RECURSIVE MapEncode(_)
MapEncode(s) ==
    IF s = <<>> THEN <<>> ELSE <<EncodeChar(Head(s))>> \o MapEncode(Tail(s))

RECURSIVE MapDecode(_)
MapDecode(s) ==
    IF s = <<>> THEN <<>> ELSE <<DecodeChar(Head(s))>> \o MapDecode(Tail(s))

\* What fetch sends for the text after "?token=": the fragment is cut off and
\* a space is percent-encoded; "&" and percent escapes go out as written.
urlQuery(text) == MapEncode(Before(text, {"#"}))

\* URLSearchParams.get('token') on the query of a request: null when the
\* parameter is absent, else the text up to the next "&", percent-decoded.
searchParamsGet(query) ==
    IF query = None THEN None
    ELSE Some(MapDecode(Before(query[1], {"&"})))

(***************************************************************************)
(* The upstream research service: a black box that answers a request for   *)
(* the token it reads from the query.                                      *)
(***************************************************************************)
GoodImage == <<"https", ":", "//img/coin.png">>
BadImage == <<"coin.png">>

\* A body the schema accepts; `note` is a key the schema does not know.
ValidBody(id) ==
    [id |-> id, name |-> "Coin", symbol |-> "CN", image |-> GoodImage,
     summary |-> "text", price |-> 1, sentiment |-> "strong bearish",
     note |-> "x"]

NoSentimentBody(id) ==
    [id |-> id, name |-> "Coin", symbol |-> "CN", image |-> GoodImage,
     summary |-> "text", price |-> 1]

BadSentimentBody(id) ==
    [id |-> id, name |-> "Coin", symbol |-> "CN", image |-> GoodImage,
     summary |-> "text", price |-> 1, sentiment |-> "moon"]

BadImageBody(id) ==
    [id |-> id, name |-> "Coin", symbol |-> "CN", image |-> BadImage,
     summary |-> "text", price |-> 1, sentiment |-> "bullish"]

Bodies(id) ==
    {ValidBody(id), NoSentimentBody(id), BadSentimentBody(id),
     BadImageBody(id)}

UpstreamStatuses == {200, 404}

\* Every way the upstream can answer a request whose query is `query`: no
\* answer at all, an answer that is not JSON, or a JSON body with a status.
UpstreamReplies(query) ==
    LET seen == searchParamsGet(query)
        id == IF seen = None THEN <<>> ELSE seen[1]
    IN  {[kind |-> "neterr"]}
        \cup {[kind |-> "http", status |-> s, json |-> None] :
                 s \in UpstreamStatuses}
        \cup {[kind |-> "http", status |-> s, json |-> Some(b)] :
                 s \in UpstreamStatuses, b \in Bodies(id)}

(***************************************************************************)
(* The proxy route, route.ts                                               *)
(***************************************************************************)
\* `${token}` in a template string
Interpolate(token) ==
    IF token = None THEN <<"n", "u", "l", "l">> ELSE token[1]

\* token === ''
EmptyTokenOnly(token) == token = Some(<<>>)

\* !token
MissingToken(token) == token = None \/ token = Some(<<>>)

TokenRequired == [status |-> 400, body |-> [error |-> "Token is required"]]

\* The request fetch issues for the upstream URL built from the token.
UpstreamRequest(token) ==
    [host |-> "crypto-research-agent-api-yvc3.onrender.com",
     path |-> "/research",
     query |-> Some(urlQuery(Interpolate(token)))]

\* Lines 10-14 once the upstream has answered: a failed fetch or a body that
\* is not JSON throws, which the framework answers with status 500.
RouteRespond(reply) ==
    IF reply.kind = "neterr" \/ reply.json = None
    THEN [status |-> 500, body |-> [message |-> "Internal Server Error"]]
    ELSE [status |-> 200, body |-> reply.json[1]]

(***************************************************************************)
(* The schema and the promise chain of one request, page.tsx               *)
(***************************************************************************)
SchemaKeys ==
    {"id", "name", "symbol", "image", "summary", "price", "market_cap",
     "price_change_24h", "volume_24h", "circulating_supply", "sentiment"}

RequiredKeys == {"id", "name", "symbol", "image", "summary", "sentiment"}

SentimentEnum ==
    {"bullish", "bearish", "neutral", "strong bullish", "strong bearish"}

\* z.string().url(): the text parses as an absolute URL, a scheme and a colon
\* before the rest.
isUrl(text) == Len(text) >= 2 /\ text[2] = ":"

\* A schema whose sentiment is any string and whose image is any string.
TokenSchemaLax(data) ==
    IF RequiredKeys \subseteq DOMAIN data
    THEN [status |-> "fulfilled",
          value |-> [k \in (DOMAIN data) \cap SchemaKeys |-> data[k]]]
    ELSE [status |-> "rejected", reason |-> "ZodError"]

\* TokenSchema.parse(data): throws a ZodError, or returns the known keys of
\* data (an unknown key is stripped).
TokenSchema(data) ==
    IF /\ RequiredKeys \subseteq DOMAIN data
       /\ isUrl(data.image)
       /\ data.sentiment \in SentimentEnum
    THEN [status |-> "fulfilled",
          value |-> [k \in (DOMAIN data) \cap SchemaKeys |-> data[k]]]
    ELSE [status |-> "rejected", reason |-> "ZodError"]

Pending == [kind |-> "pending"]

\* res.ok
ok(status) == status \in 200..299

\* The promise of line 59-64 once fetch has ended as resp: what
\* Promise.allSettled reports for it.
promiseResult(resp) ==
    CASE resp.kind = "pending" -> [status |-> "pending"]
      [] resp.kind = "neterr" ->
            [status |-> "rejected", reason |-> "TypeError: Failed to fetch"]
      [] OTHER ->
            IF ~ok(resp.status)
            THEN [status |-> "rejected", reason |-> "API request failed"]
            ELSE TokenSchema(resp.body)

\* The filter without trim: tokens.filter(t => t)
validTokensNoTrim(toks) == SelectSeq(toks, LAMBDA t : t # <<>>)

\* tokens.filter(t => t.trim())
validTokens(toks) == SelectSeq(toks, LAMBDA t : trim(t) # <<>>)

\* The request fetch issues for `/api/research?token=${token.toLowerCase()}`.
FetchRequest(token) ==
    [path |-> "/api/research", query |-> Some(urlQuery(toLowerCase(token)))]

\* A combinator that resolves as soon as one promise has settled.
firstSettled(reqs) == \E i \in DOMAIN reqs : reqs[i].resp # Pending

\* Promise.allSettled resolves once no promise is pending.
allSettled(reqs) == \A i \in DOMAIN reqs : reqs[i].resp # Pending

\* All or nothing: no result is kept when a request was rejected.
successfulResultsAllOrNothing(settled) ==
    IF \E i \in DOMAIN settled : settled[i].status = "rejected" THEN <<>>
    ELSE [i \in DOMAIN settled |-> settled[i].value]

\* results.filter(r => r.status === 'fulfilled').map(r => r.value)
successfulResults(settled) ==
    LET kept == SelectSeq(settled, LAMBDA r : r.status = "fulfilled")
    IN  [i \in DOMAIN kept |-> kept[i].value]

\* results.filter(r => r.status === 'rejected').length
failedCount(settled) ==
    Len(SelectSeq(settled, LAMBDA r : r.status = "rejected"))

NoTokenToast == <<"Please enter at least one token">>

\* The notice with the plural whatever the count.
FailedToastAlwaysPlural(n) == <<"Failed to fetch ", n, " token", "s">>

\* `Failed to fetch ${failedCount} token${failedCount > 1 ? 's' : ''}`
FailedToast(n) ==
    <<"Failed to fetch ", n, " token", IF n > 1 THEN "s" ELSE "">>

UnexpectedToast == <<"An unexpected error occurred">>

\* JSON.stringify of a boolean and JSON.parse of its text
stringify(b) == IF b THEN <<"t", "r", "u", "e">> ELSE <<"f", "a", "l", "s", "e">>

parse(text) == text = <<"t", "r", "u", "e">>

(***************************************************************************)
(* State.                                                                  *)
(*   tokens, results, loading, dark  the four useState cells of Home       *)
(*   storage      localStorage['cryptoAgentDarkMode']                      *)
(*   pc           where the view is: "mounted" (first render done, effects *)
(*                not yet run), "effects" (both effects run, the setDark   *)
(*                of the first one not yet rendered) or "idle"             *)
(*   pendingDark  the value setDark queued in the first effect             *)
(*   reloadedFrom the flag's value when the view was reloaded, kept while   *)
(*                the user has not touched the reloaded view (history)     *)
(*   toasts       the notices raised since the last toast.dismiss()        *)
(*   submissions  the calls of handleSubmit that await their requests, in  *)
(*                the order they started, followed by those that ended     *)
(*                since the last one started; each holds the tokens its    *)
(*                closure read, its requests and where it is: "awaiting",  *)
(*                "done" (ended by return) or "caught" (ended in catch)    *)
(*   handlers     the invocations of the proxy route                       *)
(***************************************************************************)
TokenInputs == {<<>>, <<" ">>, <<"B">>, <<"e">>}

ProxyRequests ==
    {[path |-> "/api/research", query |-> q] :
        q \in {None, Some(<<>>), Some(<<"b">>), Some(<<"e">>),
               Some(<<"b", "%26", "e">>)}}

Init ==
    /\ tokens = << <<>> >>
    /\ results = <<>>
    /\ loading = FALSE
    /\ dark = FALSE
    /\ storage = None
    /\ pc = "mounted"
    /\ pendingDark = None
    /\ reloadedFrom = None
    /\ toasts = <<>>
    /\ submissions = <<>>
    /\ handlers = [h \in 1..MaxHandlers |-> [pc |-> "idle"]]

(***************************************************************************)
(* Dark mode, page.tsx lines 32-42 and 112-114                             *)
(***************************************************************************)
\* The stored flag is not read.
savedDarkIgnored(savedDark) == FALSE

\* savedDark ? JSON.parse(savedDark) : false
savedDarkValue(savedDark) ==
    IF savedDark # None /\ savedDark[1] # <<>> THEN parse(savedDark[1])
    ELSE FALSE

\* After the first render both effects run in order: the first reads the
\* stored flag and queues setDark, the second writes the rendered flag (the
\* class it also sets on the document is presentation and is left out).
RunEffects ==
    /\ pc = "mounted"
    /\ pendingDark' = Some(savedDarkValue(storage))
    /\ storage' = Some(stringify(dark))
    /\ pc' = "effects"
    /\ UNCHANGED <<tokens, results, loading, dark, reloadedFrom, toasts,
                   submissions, handlers>>

\* The queued setDark is rendered; the second effect runs again when dark
\* has changed.
Rerender ==
    /\ pc = "effects"
    /\ dark' = pendingDark[1]
    /\ storage' = IF dark' # dark THEN Some(stringify(dark')) ELSE storage
    /\ pendingDark' = None
    /\ pc' = "idle"
    /\ UNCHANGED <<tokens, results, loading, reloadedFrom, toasts,
                   submissions, handlers>>

\* onClick={() => setDark(!dark)}, then the second effect
ToggleDark ==
    /\ pc = "idle"
    /\ dark' = ~dark
    /\ storage' = Some(stringify(dark'))
    /\ reloadedFrom' = None
    /\ UNCHANGED <<tokens, results, loading, pc, pendingDark, toasts,
                   submissions, handlers>>

\* The user reloads the settled view: every useState cell is back at its
\* initial value, requests in flight are gone, localStorage stays.
Reload ==
    /\ pc = "idle"
    /\ tokens' = << <<>> >>
    /\ results' = <<>>
    /\ loading' = FALSE
    /\ dark' = FALSE
    /\ pc' = "mounted"
    /\ pendingDark' = None
    /\ reloadedFrom' = Some(dark)
    /\ toasts' = <<>>
    /\ submissions' = <<>>
    /\ UNCHANGED <<storage, handlers>>

(***************************************************************************)
(* The token list, page.tsx lines 86-101                                   *)
(***************************************************************************)
\* An edit that also empties the result list.
handleTokenChangeClearing(index, value) ==
    /\ pc = "idle"
    /\ index \in DOMAIN tokens
    /\ value # tokens[index]
    /\ tokens' = [tokens EXCEPT ![index] = value]
    /\ results' = <<>>
    /\ reloadedFrom' = None
    /\ UNCHANGED <<loading, dark, storage, pc, pendingDark, toasts,
                   submissions, handlers>>

\* onChange fires when the text of the field has changed.
handleTokenChange(index, value) ==
    /\ pc = "idle"
    /\ index \in DOMAIN tokens
    /\ value # tokens[index]
    /\ tokens' = [tokens EXCEPT ![index] = value]
    /\ reloadedFrom' = None
    /\ UNCHANGED <<results, loading, dark, storage, pc, pendingDark,
                   toasts, submissions, handlers>>

addTokenField ==
    /\ pc = "idle"
    /\ Len(tokens) < MaxTokens
    /\ tokens' = Append(tokens, <<>>)
    /\ reloadedFrom' = None
    /\ UNCHANGED <<results, loading, dark, storage, pc, pendingDark,
                   toasts, submissions, handlers>>

\* tokens.filter((_, i) => i !== index)
WithoutIndex(toks, index) ==
    [i \in 1..(Len(toks) - 1) |-> IF i < index THEN toks[i] ELSE toks[i + 1]]

\* The removal without its guard.
removedUnguarded(toks, index) == WithoutIndex(toks, index)

\* The list removeTokenField(index) sets: the list itself when it has one
\* entry.
removed(toks, index) ==
    IF Len(toks) > 1 THEN WithoutIndex(toks, index) ELSE toks

removeTokenField(index) ==
    /\ pc = "idle"
    /\ index \in DOMAIN tokens
    /\ tokens' = removed(tokens, index)
    /\ reloadedFrom' = None
    /\ UNCHANGED <<results, loading, dark, storage, pc, pendingDark,
                   toasts, submissions, handlers>>

(***************************************************************************)
(* The submission, page.tsx lines 44-84                                    *)
(***************************************************************************)
\* A submit button that is never disabled.
submitAlways == TRUE

\* <button type="submit" disabled={loading}>: the form submits only while
\* its submit button is enabled.
submitEnabled == ~loading

\* The calls of handleSubmit that still await their requests.
Awaiting == SelectSeq(submissions, LAMBDA s : s.pc = "awaiting")

\* The requests of line 58-59, one per valid token, in order.
fanOut(valid) ==
    [i \in DOMAIN valid |-> [url |-> FetchRequest(valid[i]), resp |-> Pending]]

\* handleSubmit up to its await: with no valid token it runs to its end (the
\* notice, then finally); otherwise it issues the requests and waits.
handleSubmit ==
    /\ pc = "idle"
    /\ submitEnabled
    /\ results' = <<>>
    /\ LET valid == validTokens(tokens)
       IN  IF valid = <<>>
           THEN /\ toasts' = <<NoTokenToast>>
                /\ loading' = FALSE
                /\ submissions' =
                       Append(Awaiting,
                              [tokens |-> tokens, reqs |-> <<>>,
                               pc |-> "done"])
           ELSE /\ toasts' = <<>>
                /\ loading' = TRUE
                /\ submissions' =
                       Append(Awaiting,
                              [tokens |-> tokens, reqs |-> fanOut(valid),
                               pc |-> "awaiting"])
    /\ reloadedFrom' = None
    /\ UNCHANGED <<tokens, dark, storage, pc, pendingDark, handlers>>

\* The upstream calls GET makes for a request: none when the token is
\* missing (lines 5-8), else the one of line 10.
GETUpstream(req) ==
    LET token == searchParamsGet(req.query)
    IN  IF MissingToken(token) THEN <<>> ELSE <<UpstreamRequest(token)>>

\* The response of GET to a request, the upstream answering `reply`.
GET(req, reply) ==
    IF GETUpstream(req) = <<>> THEN TokenRequired ELSE RouteRespond(reply)

\* Every way a fetch of the proxy can end in the browser: the transport
\* fails, or the proxy's response arrives.
FetchOutcomes(req) ==
    LET calls == GETUpstream(req)
        replies == IF calls = <<>> THEN {[kind |-> "neterr"]}
                   ELSE UpstreamReplies(calls[1].query)
        responses == {GET(req, r) : r \in replies}
    IN  {[kind |-> "neterr"]}
        \cup {[kind |-> "http", status |-> p.status, body |-> p.body] :
                 p \in responses}

\* A request whose transport failed is issued again.
settleRetry(reqs, i, resp) ==
    IF resp.kind = "neterr"
    THEN Append([reqs EXCEPT ![i].resp = resp],
                [url |-> reqs[i].url, resp |-> Pending])
    ELSE [reqs EXCEPT ![i].resp = resp]

\* One request of one submission ends; the others are left as they are.
settle(reqs, i, resp) == [reqs EXCEPT ![i].resp = resp]

RequestSettles(k, i) ==
    /\ k \in DOMAIN submissions
    /\ i \in DOMAIN submissions[k].reqs
    /\ submissions[k].reqs[i].resp = Pending
    /\ \E resp \in FetchOutcomes(submissions[k].reqs[i].url) :
          submissions' =
              [submissions EXCEPT ![k].reqs = settle(@, i, resp)]
    /\ UNCHANGED <<tokens, results, loading, dark, storage, pc, pendingDark,
                   reloadedFrom, toasts, handlers>>

\* handleSubmit from its await to its end, lines 57-83.
handleSubmitResume(k) ==
    /\ k \in DOMAIN submissions
    /\ submissions[k].pc = "awaiting"
    /\ allSettled(submissions[k].reqs)
    /\ LET reqs == submissions[k].reqs
           settled == [i \in DOMAIN reqs |-> promiseResult(reqs[i].resp)]
           failed == failedCount(settled)
       IN  /\ toasts' = IF failed > 0 THEN Append(toasts, FailedToast(failed))
                        ELSE toasts
           /\ results' = successfulResults(settled)
    /\ loading' = FALSE
    /\ submissions' = [submissions EXCEPT ![k].pc = "done"]
    /\ UNCHANGED <<tokens, dark, storage, pc, pendingDark, reloadedFrom,
                   handlers>>

\* The catch block without the finally block after it.
handleSubmitCatchNoFinally(k) ==
    /\ k \in DOMAIN submissions
    /\ submissions[k].pc = "awaiting"
    /\ allSettled(submissions[k].reqs)
    /\ toasts' = Append(toasts, UnexpectedToast)
    /\ submissions' = [submissions EXCEPT ![k].pc = "caught"]
    /\ UNCHANGED <<tokens, results, loading, dark, storage, pc, pendingDark,
                   reloadedFrom, handlers>>

\* handleSubmit from its await to its end when a statement of lines 67-71
\* throws: the catch block of lines 78-80 raises the generic notice, the
\* finally block of lines 81-83 clears the flag, setResults is not reached.
handleSubmitCatch(k) ==
    /\ k \in DOMAIN submissions
    /\ submissions[k].pc = "awaiting"
    /\ allSettled(submissions[k].reqs)
    /\ toasts' = Append(toasts, UnexpectedToast)
    /\ loading' = FALSE
    /\ submissions' = [submissions EXCEPT ![k].pc = "caught"]
    /\ UNCHANGED <<tokens, results, dark, storage, pc, pendingDark,
                   reloadedFrom, handlers>>

(***************************************************************************)
(* The proxy route as a process, route.ts lines 4-15                       *)
(***************************************************************************)
\* GET up to its await: the 400 of line 7, or the fetch of line 10.
GETStart(h, req) ==
    /\ handlers[h].pc # "awaiting"
    /\ LET calls == GETUpstream(req)
       IN  handlers' =
               [handlers EXCEPT ![h] =
                   IF calls = <<>>
                   THEN [pc |-> "responded", req |-> req, upstream |-> calls,
                         response |-> GET(req, [kind |-> "neterr"])]
                   ELSE [pc |-> "awaiting", req |-> req, upstream |-> calls]]
    /\ UNCHANGED viewVars

\* GET from its await to its return, the upstream having answered.
GETFinish(h) ==
    /\ handlers[h].pc = "awaiting"
    /\ \E reply \in UpstreamReplies(handlers[h].upstream[1].query) :
          handlers' =
              [handlers EXCEPT ![h] =
                  [pc |-> "responded", req |-> handlers[h].req,
                   upstream |-> handlers[h].upstream, reply |-> reply,
                   response |-> GET(handlers[h].req, reply)]]
    /\ UNCHANGED viewVars

Next ==
    \/ RunEffects
    \/ Rerender
    \/ ToggleDark
    \/ Reload
    \/ \E index \in 1..MaxTokens, value \in TokenInputs :
          handleTokenChange(index, value)
    \/ addTokenField
    \/ \E index \in 1..MaxTokens : removeTokenField(index)
    \/ handleSubmit
    \/ \E k \in 1..Len(submissions), i \in 1..MaxTokens : RequestSettles(k, i)
    \/ \E k \in 1..Len(submissions) : handleSubmitResume(k)
    \/ \E k \in 1..Len(submissions) : handleSubmitCatch(k)

Spec == Init /\ [][Next]_vars

\* The event loop runs the continuation of handleSubmit once the promise it
\* awaits has settled.  Nothing makes a request end: the code sets no
\* timeout.
ContinuationRuns ==
    WF_vars(\E k \in 1..Len(submissions) :
                handleSubmitResume(k) \/ handleSubmitCatch(k))

SpecLive == Spec /\ ContinuationRuns

NextProxy ==
    \/ \E h \in 1..MaxHandlers, req \in ProxyRequests : GETStart(h, req)
    \/ \E h \in 1..MaxHandlers : GETFinish(h)

SpecProxy == Init /\ [][NextProxy]_vars

(***************************************************************************)
(* Properties.  What a blank entry, a valid record, a lower-cased entry    *)
(* and a stored flag are is written out here, apart from the operators     *)
(* that model the code above.                                              *)
(***************************************************************************)
\* An entry of the token list that has a character other than a space.
NonBlank(entry) == \E i \in DOMAIN entry : entry[i] # " "

NonBlankEntries(toks) == SelectSeq(toks, NonBlank)

AllBlank(toks) == \A i \in DOMAIN toks : ~NonBlank(toks[i])

\* The fields of a TokenInfo.
KnownFields ==
    {"id", "name", "symbol", "image", "summary", "sentiment", "price",
     "market_cap", "price_change_24h", "volume_24h", "circulating_supply"}

\* A record that has every required field and no unknown one, a sentiment of
\* the enumeration and an image that starts with a scheme and a colon.
FullyValid(r) ==
    /\ {"id", "name", "symbol", "image", "summary", "sentiment"}
           \subseteq DOMAIN r
    /\ DOMAIN r \subseteq KnownFields
    /\ r.sentiment \in {"bullish", "bearish", "neutral", "strong bullish",
                        "strong bearish"}
    /\ Len(r.image) >= 2
    /\ r.image[2] = ":"

\* The fields of a body that are fields of a TokenInfo.
Shown(body) ==
    [k \in (DOMAIN body) \cap KnownFields |-> body[k]]

\* A request whose response arrived with a success status and a body that
\* conforms to the schema.
YieldedValid(req) ==
    /\ req.resp.kind = "http"
    /\ req.resp.status = 200
    /\ FullyValid(Shown(req.resp.body))

\* The count the failure notice names; 0 when there is no such notice.
ReportedFailures ==
    LET notices == SelectSeq(toasts, LAMBDA t : t[1] = "Failed to fetch ")
    IN  IF notices = <<>> THEN 0 ELSE notices[Len(notices)][2]

Done(s) == s.pc = "done"

\* C1: once a submission has finished, the result list is the schema-valid
\* responses in the order of their requests (the order of the token list),
\* the failure count reported is the number of requests that yielded no
\* valid response, and successes plus failures is the number of non-blank
\* entries, whatever the order in which the requests completed.
C1_ResultsAreValidResponsesInOrder ==
    \A k \in DOMAIN submissions :
        LET s == submissions[k]
            good == SelectSeq(s.reqs, YieldedValid)
        IN  Done(s) =>
                /\ results = [j \in DOMAIN good |-> Shown(good[j].resp.body)]
                /\ ReportedFailures = Len(s.reqs) - Len(good)
                /\ Len(results) + ReportedFailures
                       = Len(NonBlankEntries(s.tokens))

\* A finished submission of two tokens whose first request failed and whose
\* second one succeeded.
C1_Witness ==
    \E k \in DOMAIN submissions :
        LET s == submissions[k]
        IN  /\ Done(s)
            /\ Len(s.reqs) = 2
            /\ ~YieldedValid(s.reqs[1])
            /\ YieldedValid(s.reqs[2])
            /\ Len(results) = 1
            /\ results[1].id = <<"b">>
            /\ ReportedFailures = 1

\* No settled request changes, and at most one request settles in a step.
SiblingsUntouched ==
    \A k \in DOMAIN submissions :
        (submissions[k].pc = "awaiting" /\ k \in DOMAIN submissions')
        => LET before == submissions[k].reqs
               after == submissions'[k].reqs
           IN  /\ DOMAIN after = DOMAIN before
               /\ \A i \in DOMAIN before :
                     before[i].resp # Pending => after[i] = before[i]
               /\ \A i, j \in DOMAIN before :
                     (i # j /\ after[i] # before[i]) => after[j] = before[j]

\* C2: a submission has finished only when every one of its requests has
\* settled, and a request that settles (fulfilled or rejected) leaves every
\* sibling request as it was.
C2_CompletesOnlyAfterAllSettle ==
    /\ [](\A k \in DOMAIN submissions :
             Done(submissions[k]) =>
                 \A i \in DOMAIN submissions[k].reqs :
                     submissions[k].reqs[i].resp # Pending)
    /\ [][SiblingsUntouched]_vars

\* A submission of two tokens that is still loading, its result list empty,
\* after one of its requests has failed while the other is pending.
C2_Witness ==
    \E k \in DOMAIN submissions :
        LET s == submissions[k]
        IN  /\ s.pc = "awaiting"
            /\ loading
            /\ results = <<>>
            /\ Len(s.reqs) = 2
            /\ s.reqs[1].resp = Pending
            /\ s.reqs[2].resp # Pending
            /\ ~YieldedValid(s.reqs[2])

\* C3: every record of the result list passed the whole schema; a response
\* without sentiment, with a sentiment outside the enumeration or with an
\* image that is no URL is in no record of the list and is one failure.
C3_OnlyValidatedRecords ==
    /\ \A j \in DOMAIN results : FullyValid(results[j])
    /\ \A k \in DOMAIN submissions :
          LET s == submissions[k]
              bad == SelectSeq(s.reqs, LAMBDA r : r.resp # Pending
                                                 /\ ~YieldedValid(r))
          IN  Done(s) =>
                  /\ Len(results) = Len(s.reqs) - Len(bad)
                  /\ ReportedFailures = Len(bad)

\* A finished submission that received a body with an image that is no URL
\* and a body without sentiment.
C3_Witness ==
    \E k \in DOMAIN submissions :
        LET s == submissions[k]
        IN  /\ Done(s)
            /\ Len(s.reqs) = 2
            /\ s.reqs[1].resp.kind = "http"
            /\ s.reqs[1].resp.status = 200
            /\ s.reqs[1].resp.body.image = BadImage
            /\ s.reqs[2].resp.kind = "http"
            /\ s.reqs[2].resp.status = 200
            /\ "sentiment" \notin DOMAIN s.reqs[2].resp.body
            /\ results = <<>>
            /\ ReportedFailures = 2

\* C4: a submission of a token list with only blank entries issues no
\* request, raises the 'no valid token' notice and ends with the result list
\* empty and the loading flag false.
C4_BlankOnlySubmission ==
    \A k \in DOMAIN submissions :
        LET s == submissions[k]
        IN  AllBlank(s.tokens) =>
                /\ Done(s)
                /\ s.reqs = <<>>
                /\ results = <<>>
                /\ ~loading
                /\ toasts = << <<"Please enter at least one token">> >>

\* A finished submission of a whitespace-only entry and an empty one.
C4_Witness ==
    \E k \in DOMAIN submissions :
        /\ submissions[k].tokens = << <<" ">>, <<>> >>
        /\ Done(submissions[k])
        /\ ~loading

\* C5: the result list is never written by the aggregation of a submission
\* that is not the most recently started one: a submission that has finished
\* has no submission started after it.
C5_OnlyLatestSubmissionWrites ==
    \A k \in DOMAIN submissions :
        Done(submissions[k]) => k = Len(submissions)

\* The most recently started submission has finished and its results are
\* shown.
C5_Witness ==
    /\ submissions # <<>>
    /\ Done(submissions[Len(submissions)])
    /\ results # <<>>
    /\ ~loading

\* A step that shortens the list of a view that stays up deletes one entry of
\* a list of two or more and shifts the later entries left.
RemovalStep ==
    (Len(tokens') < Len(tokens) /\ pc' = "idle")
    => /\ Len(tokens) > 1
       /\ \E index \in DOMAIN tokens :
             /\ Len(tokens') = Len(tokens) - 1
             /\ \A i \in DOMAIN tokens' :
                   tokens'[i] = IF i < index THEN tokens[i] ELSE tokens[i + 1]

StoredText(b) ==
    IF b THEN <<"t", "r", "u", "e">> ELSE <<"f", "a", "l", "s", "e">>

\* C7: once a reloaded view has run its read effect and its write-back
\* effect, the flag in memory and the stored flag are both the flag the view
\* had before the reload.
C7_DarkModeSurvivesReload ==
    (pc = "idle" /\ reloadedFrom # None)
    => /\ dark = reloadedFrom[1]
       /\ storage = Some(StoredText(reloadedFrom[1]))

\* A view reloaded in dark mode that is up again in dark mode.
C7_Witness ==
    /\ pc = "idle"
    /\ reloadedFrom = Some(TRUE)
    /\ dark
    /\ storage = Some(<<"t", "r", "u", "e">>)

\* C8: an invocation of the proxy without a token parameter has responded
\* with status 400 and the body {"error": "Token is required"} and has made no
\* upstream call.
C8_MissingTokenIs400 ==
    \A h \in DOMAIN handlers :
        (handlers[h].pc # "idle" /\ handlers[h].req.query = None)
        => /\ handlers[h].pc = "responded"
           /\ handlers[h].response.status = 400
           /\ handlers[h].response.body = [error |-> "Token is required"]
           /\ handlers[h].upstream = <<>>

\* An invocation without a token parameter has responded.
C8_Witness ==
    \E h \in DOMAIN handlers :
        /\ handlers[h].pc = "responded"
        /\ handlers[h].req.query = None
        /\ handlers[h].response.status = 400

\* The value of the token parameter of an incoming request.
TokenValue(query) ==
    [i \in DOMAIN query[1] |->
        IF query[1][i] = "%26" THEN "&" ELSE query[1][i]]

\* C9: an invocation of the proxy with a (non-empty) token parameter makes
\* one upstream GET whose token parameter has the same value and, the upstream
\* having answered with JSON, responds with that body and status 200.
C9_ForwardsSameToken ==
    \A h \in DOMAIN handlers :
        (/\ handlers[h].pc # "idle"
         /\ handlers[h].req.query # None
         /\ handlers[h].req.query # Some(<<>>))
        => /\ Len(handlers[h].upstream) = 1
           /\ searchParamsGet(handlers[h].upstream[1].query)
                  = Some(TokenValue(handlers[h].req.query))
           /\ (handlers[h].pc = "responded"
               /\ handlers[h].reply.kind = "http"
               /\ handlers[h].reply.json # None)
              => /\ handlers[h].response.status = 200
                 /\ handlers[h].response.body = handlers[h].reply.json[1]

\* The entry with its upper-case letters lowered.
LowerCased(entry) ==
    [i \in DOMAIN entry |-> IF entry[i] = "B" THEN "b" ELSE entry[i]]

\* C10: a submission has one request per non-blank entry of its token list,
\* for the entry in lower case and in the order of the list, whatever the
\* outcomes of its requests: none is issued again.
C10_OneRequestPerNonBlankEntry ==
    \A k \in DOMAIN submissions :
        LET s == submissions[k]
            entries == NonBlankEntries(s.tokens)
        IN  /\ Len(s.reqs) = Len(entries)
            /\ \A j \in DOMAIN s.reqs :
                  s.reqs[j].url = [path |-> "/api/research",
                                   query |-> Some(LowerCased(entries[j]))]

\* A finished submission of a blank entry and "B": its one request, for "b",
\* failed in transport.
C10_Witness ==
    \E k \in DOMAIN submissions :
        /\ submissions[k].tokens = << <<" ">>, <<"B">> >>
        /\ Done(submissions[k])
        /\ Len(submissions[k].reqs) = 1
        /\ submissions[k].reqs[1].url.query = Some(<<"b">>)
        /\ submissions[k].reqs[1].resp.kind = "neterr"
        /\ ReportedFailures = 1

\* The notices of failed requests among the notices raised.
FailureNotices == SelectSeq(toasts, LAMBDA t : t[1] = "Failed to fetch ")

\* C11: a finished submission that issued requests has raised one notice of
\* failure if at least one of its requests failed and none otherwise; the
\* notice names the number of failed requests, followed by "token" when the
\* number is 1 and by "tokens" when it is greater.
C11_OneFailureNoticeWithCount ==
    \A k \in DOMAIN submissions :
        LET s == submissions[k]
            failures == Len(s.reqs) - Len(SelectSeq(s.reqs, YieldedValid))
        IN  (Done(s) /\ s.reqs # <<>>) =>
                /\ failures = 0 => FailureNotices = <<>>
                /\ failures = 1 =>
                       FailureNotices
                           = << <<"Failed to fetch ", 1, " token", "">> >>
                /\ failures > 1 =>
                       FailureNotices
                           = << <<"Failed to fetch ", failures, " token",
                                  "s">> >>

\* A finished submission of two tokens with one request failed and one
\* succeeded, its notice in the singular.
C11_Witness ==
    \E k \in DOMAIN submissions :
        LET s == submissions[k]
        IN  /\ Done(s)
            /\ Len(s.reqs) = 2
            /\ YieldedValid(s.reqs[1])
            /\ ~YieldedValid(s.reqs[2])
            /\ toasts = << <<"Failed to fetch ", 1, " token", "">> >>

\* C12: no two records of the result list have the same id, whatever the
\* token list that was submitted, one that names an identifier twice
\* included.
C12_ResultIdsDistinct ==
    \A i, j \in DOMAIN results :
        i # j => results[i].id # results[j].id

\* A submission none of whose requests has ended.
Fresh(s) == \A i \in DOMAIN s.reqs : s.reqs[i].resp = Pending

\* The step starts a submission of the token list: it is the last one
\* started, and none of its requests has ended.
StartsSubmission ==
    /\ submissions' # <<>>
    /\ Fresh(submissions'[Len(submissions')])
    /\ submissions'[Len(submissions')].tokens = tokens

\* The step ends a submission that was awaiting its requests.
EndsSubmission ==
    \E k \in DOMAIN submissions :
        /\ k \in DOMAIN submissions'
        /\ submissions[k].pc = "awaiting"
        /\ submissions'[k].pc # "awaiting"
        /\ submissions'[k].reqs = submissions[k].reqs

\* The step is one of the page as loaded, not the reload that builds the
\* page anew.
SamePage == pc' # "mounted"

\* A step that changes the result list or the loading flag starts a
\* submission, clearing the list, or ends one, clearing the flag; a step that
\* changes the token list or the dark flag changes neither.
ResultsAndLoadingFrame ==
    SamePage =>
        /\ (results' # results \/ loading' # loading) =>
               \/ /\ StartsSubmission
                  /\ results' = <<>>
                  /\ loading' = (submissions'[Len(submissions')].reqs # <<>>)
               \/ /\ EndsSubmission
                  /\ loading
                  /\ ~loading'
        /\ (tokens' # tokens \/ dark' # dark) =>
               /\ results' = results
               /\ loading' = loading

\* C13: the result list and the loading flag change only in the step that
\* starts a submission (list emptied, flag set) and in the step that ends
\* one (list set, flag cleared); editing, adding or removing an entry and
\* toggling dark mode change neither; and while the flag is true the list
\* is empty.
C13_ResultsAndLoadingChangeAtStartAndEnd ==
    /\ [](loading => results = <<>>)
    /\ [][ResultsAndLoadingFrame]_vars

\* A submission of the entries "B" and "e", added and edited before it, is
\* loading in dark mode: one of its requests has ended and the result list
\* is empty.
C13_Witness ==
    /\ loading
    /\ results = <<>>
    /\ dark
    /\ tokens = << <<"B">>, <<"e">> >>
    /\ \E k \in DOMAIN submissions :
          /\ submissions[k].pc = "awaiting"
          /\ submissions[k].tokens = tokens
          /\ \E i \in DOMAIN submissions[k].reqs :
                submissions[k].reqs[i].resp # Pending

\* A submission that has ended, by whichever path.
Ended(s) == s.pc # "awaiting"

\* A submission with a request that has not ended.
HasPending(s) == \E i \in DOMAIN s.reqs : s.reqs[i].resp = Pending

\* The i-th request of a submission has not ended.
PendingAt(i) ==
    \E k \in DOMAIN submissions :
        /\ i \in DOMAIN submissions[k].reqs
        /\ submissions[k].reqs[i].resp = Pending

\* C14: if every request that is pending ends later, a loading flag that is
\* true is false later; whichever way the last submission ended (all
\* entries blank, the aggregation, an exception caught) the flag is false
\* and, after an exception, the generic notice is shown and the view is
\* idle with its result list empty; and while a request of a submission
\* has not ended the flag stays true.
C14_LoadingClearsWhenRequestsSettle ==
    /\ (\A i \in 1..MaxTokens : PendingAt(i) ~> ~PendingAt(i))
           => (loading ~> ~loading)
    /\ [](\A k \in DOMAIN submissions :
             (k = Len(submissions) /\ Ended(submissions[k])) => ~loading)
    /\ [](\A k \in DOMAIN submissions :
             submissions[k].pc = "caught" =>
                 /\ pc = "idle"
                 /\ results = <<>>
                 /\ toasts # <<>>
                 /\ toasts[Len(toasts)] = <<"An unexpected error occurred">>)
    /\ [](\A k \in DOMAIN submissions :
             HasPending(submissions[k]) => loading)

\* A submission of two tokens has ended in the catch block after both of
\* its requests ended, one of them with a valid response: the flag is
\* false, the result list empty and the generic notice shown.
C14_Witness ==
    \E k \in DOMAIN submissions :
        LET s == submissions[k]
        IN  /\ s.pc = "caught"
            /\ Len(s.reqs) = 2
            /\ YieldedValid(s.reqs[1])
            /\ ~HasPending(s)
            /\ ~loading
            /\ results = <<>>
            /\ toasts = << <<"An unexpected error occurred">> >>

\* The step begins a submission: a submission none of whose requests has
\* ended is there after the step and was not there before it.
BeginsSubmission ==
    \E k \in DOMAIN submissions' :
        /\ Fresh(submissions'[k])
        /\ k \in DOMAIN submissions => submissions'[k] # submissions[k]

\* The addresses of the requests of a submission, in order.
Urls(s) == [i \in DOMAIN s.reqs |-> s.reqs[i].url]

\* A submission begins only while the flag is false; a submission that
\* awaits keeps its tokens and the addresses of its requests; and a step
\* of the loaded page that changes the token list while the flag is true
\* changes no submission and no result.
OneSubmissionAtATime ==
    /\ BeginsSubmission => ~loading
    /\ \A k \in DOMAIN submissions :
          (submissions[k].pc = "awaiting" /\ k \in DOMAIN submissions') =>
              /\ submissions'[k].tokens = submissions[k].tokens
              /\ Urls(submissions'[k]) = Urls(submissions[k])
    /\ (loading /\ tokens' # tokens /\ SamePage) =>
          /\ submissions' = submissions
          /\ results' = results

\* C15: no two submissions have requests pending at once, and at most one
\* submission awaits; a submission begins only while the loading flag is
\* false; the requests of a submission are those of the token list as it
\* was when the submission began, and editing, adding or removing entries
\* while it is loading changes neither them nor the results, which name only
\* entries of that list.
C15_AtMostOneSubmissionInFlight ==
    /\ [](\A k1, k2 \in DOMAIN submissions :
             (k1 # k2) =>
                 /\ ~(HasPending(submissions[k1]) /\ HasPending(submissions[k2]))
                 /\ ~(submissions[k1].pc = "awaiting"
                        /\ submissions[k2].pc = "awaiting"))
    /\ [](\A k \in DOMAIN submissions :
             LET s == submissions[k]
                 entries == NonBlankEntries(s.tokens)
             IN  /\ Len(s.reqs) = Len(entries)
                 /\ \A i \in DOMAIN s.reqs :
                       s.reqs[i].url.query = <<LowerCased(entries[i])>>
                 /\ Done(s) =>
                       \A j \in DOMAIN results :
                           \E i \in DOMAIN entries :
                               results[j].id = LowerCased(entries[i]))
    /\ [][OneSubmissionAtATime]_vars

\* A submission of "B" is loading with its request pending while the token
\* list has since been edited to "e" and a second entry added.
C15_Witness ==
    /\ loading
    /\ tokens = << <<"e">>, <<>> >>
    /\ Len(submissions) = 1
    /\ submissions[1].pc = "awaiting"
    /\ submissions[1].tokens = << <<"B">> >>
    /\ Len(submissions[1].reqs) = 1
    /\ submissions[1].reqs[1].url.query = << <<"b">> >>
    /\ HasPending(submissions[1])

====
